---- MODULE Spec2Model ----
(***************************************************************************)
(* A model of csv_to_sql.py: the value-to-SQL-literal inference            *)
(* (to_sql_literal, as_sql_datetime2_126), the column ordering             *)
(* (build_columns) and the chunked emission (main, write_chunk_sql).       *)
(*                                                                         *)
(* Text is a sequence of one-character strings, so that trimming,          *)
(* matching, escaping, parsing and formatting are computed character by    *)
(* character as the Python code computes them.                             *)
(***************************************************************************)
EXTENDS Integers, Sequences, FiniteSets, TLC

VARIABLES
    val,               \* to_sql_literal: the argument (a text, or None)
    lit,               \* to_sql_literal: the returned text (None before the call)
    libc_pads_year,    \* whether the platform's strftime zero-pads %Y below 1000
    csv_cols,          \* main: reader.fieldnames
    exclude_columns,   \* main: args.exclude_columns
    id_column,         \* main: the key column (None when disabled)
    generate_uuid,     \* main: the generation flag
    chunk_size,        \* main: max(1, args.chunk_size)
    all_rows,          \* main: list(reader)
    cols,              \* main: the result of build_columns
    i,                 \* main: the loop variable of "for i in range(parts)"
    files,             \* the artifacts written so far, in order
    uuid_count,        \* how many identifiers uuid.uuid4() has handed out
    pc                 \* the position of the run

vars == <<val, lit, libc_pads_year, csv_cols, exclude_columns, id_column,
          generate_uuid, chunk_size, all_rows, cols, i, files, uuid_count, pc>>

(***************************************************************************)
(* Bounds of the model.                                                    *)
(***************************************************************************)
MaxLen == 4        \* longest free text given to to_sql_literal
MaxCols == 2       \* longest CSV header
MaxRows == 3       \* most rows in the CSV
MaxChunk == 2      \* largest chunk size

(***************************************************************************)
(* Text helpers.                                                           *)
(***************************************************************************)
None == <<"<None>">>

Digits == <<"0", "1", "2", "3", "4", "5", "6", "7", "8", "9">>

IsDigit(c) == \E k \in 1..Len(Digits) : Digits[k] = c

DigitVal(c) == (CHOOSE k \in 1..Len(Digits) : Digits[k] = c) - 1

DigitChr(n) == Digits[n + 1]

LowerLetters == <<"a", "b", "c", "d", "e", "f", "g", "h", "i", "j", "k", "l", "m",
                  "n", "o", "p", "q", "r", "s", "t", "u", "v", "w", "x", "y", "z">>

UpperLetters == <<"A", "B", "C", "D", "E", "F", "G", "H", "I", "J", "K", "L", "M",
                  "N", "O", "P", "Q", "R", "S", "T", "U", "V", "W", "X", "Y", "Z">>

\* str.upper(), one character at a time
UpperChr(c) ==
    IF \E k \in 1..Len(LowerLetters) : LowerLetters[k] = c
    THEN UpperLetters[CHOOSE k \in 1..Len(LowerLetters) : LowerLetters[k] = c]
    ELSE c

upper(s) == [k \in 1..Len(s) |-> UpperChr(s[k])]

\* the characters str.strip() removes (those of the model's alphabet)
IsSpace(c) == c \in {" ", "\t", "\n", "\r"}

RECURSIVE lstrip(_)
lstrip(s) == IF Len(s) > 0 /\ IsSpace(s[1]) THEN lstrip(Tail(s)) ELSE s

RECURSIVE rstrip(_)
rstrip(s) ==
    IF Len(s) > 0 /\ IsSpace(s[Len(s)]) THEN rstrip(SubSeq(s, 1, Len(s) - 1)) ELSE s

strip(s) == rstrip(lstrip(s))

\* a replace that stops after the first quote: str.replace("'", "''", 1)
replace_quote_first_only(s) ==
    IF \E k \in 1..Len(s) : s[k] = "'"
    THEN LET k == CHOOSE k \in 1..Len(s) : s[k] = "'" /\ \A j \in 1..(k - 1) : s[j] # "'"
         IN  SubSeq(s, 1, k) \o <<"'">> \o SubSeq(s, k + 1, Len(s))
    ELSE s

\* str.replace("'", "''")
RECURSIVE replace_quote(_)
replace_quote(s) ==
    IF s = <<>> THEN <<>>
    ELSE (IF s[1] = "'" THEN <<"'", "'">> ELSE <<s[1]>>) \o replace_quote(Tail(s))

\* the first index >= from of s that holds no digit (Len(s) + 1 when none)
RECURSIVE SkipDigits(_, _)
SkipDigits(s, from) ==
    IF from <= Len(s) /\ IsDigit(s[from]) THEN SkipDigits(s, from + 1) ELSE from

DigitsAt(s, from, n) == from + n - 1 <= Len(s) /\ \A k \in from..(from + n - 1) : IsDigit(s[k])

CharAt(s, k, c) == k <= Len(s) /\ s[k] = c

\* "$" of a Python regex: at the end, or before a final newline
AtEnd(s, k) == k = Len(s) + 1 \/ (k = Len(s) /\ s[k] = "\n")

\* int() of a run of digits
RECURSIVE ToInt(_)
ToInt(s) == IF s = <<>> THEN 0 ELSE 10 * ToInt(SubSeq(s, 1, Len(s) - 1)) + DigitVal(s[Len(s)])

\* n written with at least w digits, zero-padded on the left
RECURSIVE Fmt(_, _)
Fmt(n, w) == IF w <= 1 /\ n < 10 THEN <<DigitChr(n)>> ELSE Fmt(n \div 10, w - 1) \o <<DigitChr(n % 10)>>

(***************************************************************************)
(* The helper regexes.                                                     *)
(***************************************************************************)
\* a NUMERIC_RE that lost its decimal part: ^[+-]?\d+$
NUMERIC_RE_integers_only(v) ==
    LET a == IF CharAt(v, 1, "+") \/ CharAt(v, 1, "-") THEN 2 ELSE 1
        b == SkipDigits(v, a)
    IN  b > a /\ AtEnd(v, b)

\* NUMERIC_RE = ^[+-]?\d+(?:\.\d+)?$
NUMERIC_RE(v) ==
    LET a == IF CharAt(v, 1, "+") \/ CharAt(v, 1, "-") THEN 2 ELSE 1
        b == SkipDigits(v, a)
        c == SkipDigits(v, b + 1)
    IN  /\ b > a
        /\ \/ AtEnd(v, b)
           \/ CharAt(v, b, ".") /\ c > b + 1 /\ AtEnd(v, c)

\* ^\d{4}-\d{2}-\d{2}
DatePrefix(v) ==
    /\ DigitsAt(v, 1, 4) /\ CharAt(v, 5, "-")
    /\ DigitsAt(v, 6, 2) /\ CharAt(v, 8, "-")
    /\ DigitsAt(v, 9, 2)

\* T\d{2}:\d{2}:\d{2}
TimePrefix(v) ==
    /\ CharAt(v, 11, "T") /\ DigitsAt(v, 12, 2)
    /\ CharAt(v, 14, ":") /\ DigitsAt(v, 15, 2)
    /\ CharAt(v, 17, ":") /\ DigitsAt(v, 18, 2)

\* the index after the optional fraction that starts at 20
FracEnd(v) == IF CharAt(v, 20, ".") THEN SkipDigits(v, 21) ELSE 20

\* [+\-]\d{2}:\d{2} at index k
OffsetAt(v, k) ==
    /\ CharAt(v, k, "+") \/ CharAt(v, k, "-")
    /\ DigitsAt(v, k + 1, 2) /\ CharAt(v, k + 3, ":") /\ DigitsAt(v, k + 4, 2)

ISO_DT_RE(v) ==
    LET fe == FracEnd(v)
        te == IF CharAt(v, fe, "Z") THEN fe + 1
              ELSE IF OffsetAt(v, fe) THEN fe + 6 ELSE fe
    IN  /\ DatePrefix(v)
        /\ \/ AtEnd(v, 11)
           \/ /\ TimePrefix(v)
              /\ CharAt(v, 20, ".") => (fe - 21) \in 1..9
              /\ AtEnd(v, te)

(***************************************************************************)
(* datetime: fromisoformat, astimezone(timezone.utc), strftime.            *)
(***************************************************************************)
IsLeap(y) == y % 4 = 0 /\ (y % 100 # 0 \/ y % 400 = 0)

DaysInMonth(y, m) ==
    IF m \in {1, 3, 5, 7, 8, 10, 12} THEN 31
    ELSE IF m \in {4, 6, 9, 11} THEN 30
    ELSE IF IsLeap(y) THEN 29 ELSE 28

\* the first six digits of a fraction, right-padded with zeros, as microseconds
Microsecond(frac) ==
    ToInt([k \in 1..6 |-> IF k <= Len(frac) THEN frac[k] ELSE "0"])

\* datetime.fromisoformat(v) for a text of the shape ISO_DT_RE admits, a bare date
\* already expanded and a final Z already replaced; ok is FALSE where it raises
\* ValueError.  This is the parser of CPython 3.11 and later, which takes a
\* fraction of any length and keeps its first six digits
fromisoformat(v) ==
    LET fe == FracEnd(v)
        frac == IF CharAt(v, 20, ".") THEN SubSeq(v, 21, fe - 1) ELSE <<>>
        tz == OffsetAt(v, fe)
        offabs == IF tz THEN ToInt(SubSeq(v, fe + 1, fe + 2)) * 60
                             + ToInt(SubSeq(v, fe + 4, fe + 5))
                  ELSE 0
        year == ToInt(SubSeq(v, 1, 4))
        month == ToInt(SubSeq(v, 6, 7))
        day == ToInt(SubSeq(v, 9, 10))
        hour == ToInt(SubSeq(v, 12, 13))
        minute == ToInt(SubSeq(v, 15, 16))
        second == ToInt(SubSeq(v, 18, 19))
    IN  [ok |-> /\ year \in 1..9999
                /\ month \in 1..12
                /\ day \in 1..DaysInMonth(year, month)
                /\ hour \in 0..23
                /\ minute \in 0..59
                /\ second \in 0..59
                /\ offabs < 24 * 60,
         year |-> year, month |-> month, day |-> day,
         hour |-> hour, minute |-> minute, second |-> second,
         microsecond |-> Microsecond(frac),
         tzinfo |-> tz,
         utcoffset |-> IF tz /\ v[fe] = "-" THEN 0 - offabs ELSE offabs]

\* the day before / after a date, as <<year, month, day>>
PrevDay(y, m, d) ==
    IF d > 1 THEN <<y, m, d - 1>>
    ELSE IF m > 1 THEN <<y, m - 1, DaysInMonth(y, m - 1)>>
    ELSE <<y - 1, 12, 31>>

NextDay(y, m, d) ==
    IF d < DaysInMonth(y, m) THEN <<y, m, d + 1>>
    ELSE IF m < 12 THEN <<y, m + 1, 1>>
    ELSE <<y + 1, 1, 1>>

\* dt.astimezone(timezone.utc).replace(tzinfo=None) for an aware dt; ok is FALSE
\* where it raises OverflowError (the UTC date leaves the years 1..9999)
astimezone_utc(dt) ==
    LET total == dt.hour * 60 + dt.minute - dt.utcoffset
        date == IF total < 0 THEN PrevDay(dt.year, dt.month, dt.day)
                ELSE IF total >= 24 * 60 THEN NextDay(dt.year, dt.month, dt.day)
                ELSE <<dt.year, dt.month, dt.day>>
        mins == (total + 24 * 60) % (24 * 60)
    IN  [dt EXCEPT !.ok = date[1] \in 1..9999,
                   !.year = date[1], !.month = date[2], !.day = date[3],
                   !.hour = mins \div 60, !.minute = mins % 60,
                   !.tzinfo = FALSE, !.utcoffset = 0]

\* dt.strftime("%Y-%m-%dT%H:%M:%S.%f"); %Y is the C library's: glibc writes the
\* year unpadded, other platforms zero-pad it to four digits
strftime(dt) ==
    Fmt(dt.year, IF libc_pads_year THEN 4 ELSE 1) \o <<"-">> \o Fmt(dt.month, 2)
    \o <<"-">> \o Fmt(dt.day, 2) \o <<"T">> \o Fmt(dt.hour, 2) \o <<":">>
    \o Fmt(dt.minute, 2) \o <<":">> \o Fmt(dt.second, 2) \o <<".">>
    \o Fmt(dt.microsecond, 6)

\* the index of the first "." of s
FirstDot(s) == CHOOSE k \in 1..Len(s) : s[k] = "." /\ \A j \in 1..(k - 1) : s[j] # "."

\* s[:n]
Take(s, n) == SubSeq(s, 1, IF n < Len(s) THEN n ELSE Len(s))

(***************************************************************************)
(* as_sql_datetime2_126 and to_sql_literal.                                *)
(***************************************************************************)
S_CONVERT == <<"C", "O", "N", "V", "E", "R", "T", "(", "d", "a", "t", "e", "t", "i", "m", "e",
               "2", "(", "7", ")", ",", " ", "'">>

S_126 == <<"'", ",", " ", "1", "2", "6", ")">>

S_NULL == <<"N", "U", "L", "L">>

S_T000000 == <<"T", "0", "0", ":", "0", "0", ":", "0", "0">>

S_UTC == <<"+", "0", "0", ":", "0", "0">>

\* the text in v after the lines 33..36: a bare date expanded, a final Z replaced
Expanded(s) ==
    LET v0 == strip(s)
        v1 == IF DatePrefix(v0) /\ AtEnd(v0, 11) THEN v0 \o S_T000000 ELSE v0
    IN  IF Len(v1) > 0 /\ v1[Len(v1)] = "Z"
        THEN SubSeq(v1, 1, Len(v1) - 1) \o S_UTC
        ELSE v1

\* the text in v when the try block ends (normalized, or untouched after an
\* exception)
Normalized(s) ==
    LET v == Expanded(s)
        parsed == fromisoformat(v)
        dt == IF parsed.ok /\ parsed.tzinfo THEN astimezone_utc(parsed) ELSE parsed
        f == strftime(dt)
        dot == FirstDot(f)
        sec == SubSeq(f, 1, dot - 1)
        frac == Take(SubSeq(f, dot + 1, Len(f)) \o <<"0">>, 7)
    IN  IF parsed.ok /\ dt.ok THEN sec \o <<".">> \o frac ELSE v

as_sql_datetime2_126(s) == S_CONVERT \o Normalized(s) \o S_126

to_sql_literal(value) ==
    IF value = None THEN S_NULL
    ELSE LET v == strip(value)
         IN  IF v = <<>> \/ upper(v) = S_NULL THEN S_NULL
             ELSE IF ISO_DT_RE(v) THEN as_sql_datetime2_126(v)
             ELSE IF NUMERIC_RE(v) THEN v
             ELSE <<"N", "'">> \o replace_quote(v) \o <<"'">>

(***************************************************************************)
(* The inputs the literal engine is exercised on.                          *)
(***************************************************************************)
TextAlphabet == {"'", "a", "1", ".", "+", " "}

RECURSIVE TextsUpTo(_)
TextsUpTo(n) ==
    IF n = 0 THEN {<<>>}
    ELSE LET shorter == TextsUpTo(n - 1)
         IN  shorter \cup {Append(s, c) : s \in {x \in shorter : Len(x) = n - 1},
                                          c \in TextAlphabet}

TextInputs == TextsUpTo(MaxLen)

NullInputs == {None, S_NULL, <<"n", "u", "l", "l">>, <<" ", "N", "u", "l", "L", " ">>,
               <<"N", "U", "L", "L", "S">>}

Years == {Fmt(y, 4) : y \in {2023, 2024, 9999}}

Months == {Fmt(m, 2) : m \in {1, 2, 3, 12, 13}}

Days == {Fmt(d, 2) : d \in {1, 28, 29, 30, 31}}

Clocks == {Fmt(h, 2) \o <<":">> \o Fmt(m, 2) \o <<":">> \o Fmt(s, 2) :
             h \in {0, 10, 23, 25}, m \in {0, 30}, s \in {0}}

Fractions == {<<>>, <<".", "5">>, <<".", "1", "2", "3", "4", "5", "6", "7">>,
              <<".", "1", "2", "3", "4", "5", "6", "7", "8", "9">>}

Zones == {<<>>, <<"Z">>}
         \cup {<<sg>> \o Fmt(h, 2) \o <<":">> \o Fmt(0, 2) : sg \in {"+", "-"}, h \in {2}}
         \cup {<<"+">> \o Fmt(24, 2) \o <<":">> \o Fmt(0, 2)}

Dates == {y \o <<"-">> \o m \o <<"-">> \o d : y \in Years, m \in Months, d \in Days}

DateInputs ==
    Dates
    \cup {Fmt(1, 4) \o <<"-">> \o Fmt(1, 2) \o <<"-">> \o Fmt(1, 2)}
    \cup {<<" ">> \o d \o <<" ">> : d \in Dates}
    \cup {d \o <<"T">> \o c \o f \o z : d \in Dates, c \in Clocks, f \in Fractions, z \in Zones}

LiteralInputs == TextInputs \cup NullInputs \cup DateInputs

(***************************************************************************)
(* The literal engine called on one value.                                 *)
(***************************************************************************)
InitLiteral ==
    /\ val \in LiteralInputs
    /\ lit = None
    /\ libc_pads_year \in BOOLEAN
    /\ csv_cols = <<>>
    /\ exclude_columns = {}
    /\ id_column = None
    /\ generate_uuid = FALSE
    /\ chunk_size = 1
    /\ all_rows = <<>>
    /\ cols = <<>>
    /\ i = 0
    /\ files = <<>>
    /\ uuid_count = 0
    /\ pc = "call"

CallToSqlLiteral ==
    /\ pc = "call"
    /\ lit' = to_sql_literal(val)
    /\ pc' = "returned"
    /\ UNCHANGED <<val, libc_pads_year, csv_cols, exclude_columns, id_column,
                   generate_uuid, chunk_size, all_rows, cols, i, files, uuid_count>>

NextLiteral == CallToSqlLiteral

SpecLiteral == InitLiteral /\ [][NextLiteral]_vars

(***************************************************************************)
(* build_columns and write_chunk_sql.  A column name is a string; a row is *)
(* a dict, a function from some column names to cell texts (or None).      *)
(***************************************************************************)
NoColumn == "<None>"

\* the truth value Python gives an Optional[str]: None and "" are false
Truthy(name) == name # NoColumn /\ name # ""

Contains(s, x) == \E k \in 1..Len(s) : s[k] = x

\* a build_columns that prepends the key column without removing it from the
\* working list
build_columns_prepend_only(csv_columns, exclude, id_col, gen) ==
    LET kept(c) == c # "" /\ c \notin exclude
        working == SelectSeq(csv_columns, kept)
    IN  IF Truthy(id_col) /\ gen THEN <<id_col>> \o working ELSE working

build_columns(csv_columns, exclude, id_col, gen) ==
    LET kept(c) == c # "" /\ c \notin exclude
        working == SelectSeq(csv_columns, kept)
        other(c) == c # id_col
    IN  IF Truthy(id_col) /\ gen
        THEN IF ~Contains(working, id_col)
             THEN <<id_col>> \o working
             ELSE <<id_col>> \o SelectSeq(working, other)
        ELSE working

\* r.get(c, "")
Get(r, c) == IF c \in DOMAIN r THEN r[c] ELSE <<>>

\* f"'{uuid.uuid4()}'" for the k-th identifier uuid4 hands out: the identifiers of
\* one run are taken to be pairwise different, as uuid4's contract has it
UuidText(k) == <<"'", "u", "u", "i", "d", "-">> \o Fmt(k, 1) \o <<"'">>

IsKey(c, id_col, gen) == Truthy(id_col) /\ gen /\ c = id_col

\* how many of the first n columns are rendered by uuid4
KeysBefore(columns, n, id_col, gen) ==
    Cardinality({j \in 1..n : IsKey(columns[j], id_col, gen)})

\* a row rendering that calls uuid4 once, before the loops, and reuses the value
RowVals_one_uuid(r, columns, id_col, gen, used) ==
    [j \in 1..Len(columns) |->
        IF IsKey(columns[j], id_col, gen)
        THEN UuidText(1)
        ELSE to_sql_literal(Get(r, columns[j]))]

\* the list vals of one row, when used identifiers have been handed out before it
RowVals(r, columns, id_col, gen, used) ==
    [j \in 1..Len(columns) |->
        IF IsKey(columns[j], id_col, gen)
        THEN UuidText(used + KeysBefore(columns, j, id_col, gen))
        ELSE to_sql_literal(Get(r, columns[j]))]

Line(kind, n, columns, vals) == [kind |-> kind, n |-> n, columns |-> columns, vals |-> vals]

\* a write_chunk_sql whose COMMIT TRAN is written inside the row loop
write_chunk_sql_commit_in_loop(idx, rows, columns, id_col, gen, used) ==
    LET perRow == KeysBefore(columns, Len(columns), id_col, gen)
        insert(k) == Line("INSERT INTO", 0, columns,
                          RowVals(rows[k], columns, id_col, gen, used + (k - 1) * perRow))
    IN  [idx |-> idx,
         rows |-> rows,
         lines |->
            <<Line("-- Generated from chunk", idx, <<>>, <<>>),
              Line("-- Table:", 0, <<>>, <<>>),
              Line("-- Columns:", 0, columns, <<>>),
              Line("-- Rows in this file:", Len(rows), <<>>, <<>>),
              Line("BEGIN TRAN;", 0, <<>>, <<>>)>>
            \o [p \in 1..(2 * Len(rows)) |->
                  IF p % 2 = 1 THEN insert((p + 1) \div 2)
                  ELSE Line("COMMIT TRAN;", 0, <<>>, <<>>)]
            \o <<Line("GO", 0, <<>>, <<>>)>>]

\* the file write_chunk_sql writes: its part number (the path is
\* f"{out_base}-part-{idx:03d}.sql"), the arguments rows and columns, and its
\* lines in the order of the out.write calls
write_chunk_sql(idx, rows, columns, id_col, gen, used) ==
    LET perRow == KeysBefore(columns, Len(columns), id_col, gen)
    IN  [idx |-> idx,
         rows |-> rows,
         lines |->
            <<Line("-- Generated from chunk", idx, <<>>, <<>>),
              Line("-- Table:", 0, <<>>, <<>>),
              Line("-- Columns:", 0, columns, <<>>),
              Line("-- Rows in this file:", Len(rows), <<>>, <<>>),
              Line("BEGIN TRAN;", 0, <<>>, <<>>)>>
            \o [k \in 1..Len(rows) |->
                  Line("INSERT INTO", 0, columns,
                       RowVals(rows[k], columns, id_col, gen, used + (k - 1) * perRow))]
            \o <<Line("COMMIT TRAN;", 0, <<>>, <<>>), Line("GO", 0, <<>>, <<>>)>>]

(***************************************************************************)
(* main.                                                                   *)
(***************************************************************************)
ColumnNames == {"Id", "Name", "RowVersion", ""}

RECURSIVE HeadersUpTo(_)
HeadersUpTo(n) ==
    IF n = 0 THEN {<<>>}
    ELSE LET shorter == HeadersUpTo(n - 1)
         IN  shorter \cup {Append(s, c) : s \in {x \in shorter : Len(x) = n - 1},
                                          c \in ColumnNames}

\* DEFAULT_EXCLUDES, and an exclusion list that names the key column too
ExcludeLists == {{"RowVersion"}, {"RowVersion", "Id"}}

\* a full row, and a row that lacks the key column
RowSet == {[Id |-> <<"1">>, Name |-> <<"A">>],
           [Name |-> <<"O", "'", "B">>, RowVersion |-> <<"7">>]}

RECURSIVE RowsUpTo(_)
RowsUpTo(n) ==
    IF n = 0 THEN {<<>>}
    ELSE LET shorter == RowsUpTo(n - 1)
         IN  shorter \cup {Append(s, r) : s \in {x \in shorter : Len(x) = n - 1},
                                          r \in RowSet}

Max(a, b) == IF a > b THEN a ELSE b

Min(a, b) == IF a < b THEN a ELSE b

\* a part count that rounds down: total // size
Ceil_floor(total, size) == total \div size

\* math.ceil(total / size)
Ceil(total, size) == (total + size - 1) \div size

\* all_rows[start:end], 0-based and half-open as a Python slice
Slice(s, start, end) == SubSeq(s, start + 1, Min(end, Len(s)))

Init ==
    /\ val = None
    /\ lit = None
    /\ libc_pads_year = FALSE
    /\ csv_cols \in HeadersUpTo(MaxCols)
    /\ exclude_columns \in ExcludeLists
    /\ id_column \in {NoColumn, "Id"}
    /\ generate_uuid \in {g \in BOOLEAN : g => Truthy(id_column)}
    /\ chunk_size \in {Max(1, a) : a \in 0..MaxChunk}
    /\ all_rows \in RowsUpTo(MaxRows)
    /\ cols = <<>>
    /\ i = 0
    /\ files = <<>>
    /\ uuid_count = 0
    /\ pc = "start"

\* lines 152..163: the header and the rows are read, the Column Set is built once,
\* and an empty CSV ends the run
ReadCsv ==
    /\ pc = "start"
    /\ cols' = build_columns(csv_cols, exclude_columns, id_column, generate_uuid)
    /\ pc' = IF Len(all_rows) = 0 THEN "done" ELSE "loop"
    /\ UNCHANGED <<val, lit, libc_pads_year, csv_cols, exclude_columns, id_column,
                   generate_uuid, chunk_size, all_rows, i, files, uuid_count>>

\* lines 167..180: one pass of "for i in range(parts)"
WriteChunk ==
    /\ pc = "loop"
    /\ i < Ceil(Len(all_rows), chunk_size)
    /\ LET start == i * chunk_size
           end == Min(start + chunk_size, Len(all_rows))
           chunk == Slice(all_rows, start, end)
       IN  /\ files' = Append(files, write_chunk_sql(i + 1, chunk, cols, id_column,
                                                     generate_uuid, uuid_count))
           /\ uuid_count' = uuid_count
                            + Len(chunk) * KeysBefore(cols, Len(cols), id_column, generate_uuid)
    /\ i' = i + 1
    /\ UNCHANGED <<val, lit, libc_pads_year, csv_cols, exclude_columns, id_column,
                   generate_uuid, chunk_size, all_rows, cols, pc>>

\* lines 182..184: the loop is over and the run reports what it wrote
Finish ==
    /\ pc = "loop"
    /\ i = Ceil(Len(all_rows), chunk_size)
    /\ pc' = "done"
    /\ UNCHANGED <<val, lit, libc_pads_year, csv_cols, exclude_columns, id_column,
                   generate_uuid, chunk_size, all_rows, cols, i, files, uuid_count>>

Next == ReadCsv \/ WriteChunk \/ Finish

Spec == Init /\ [][Next]_vars

(***************************************************************************)
(* Notions the properties below are stated with.                           *)
(***************************************************************************)
DecimalDigits == {"0", "1", "2", "3", "4", "5", "6", "7", "8", "9"}

DigitRun(s, from, to) == from <= to /\ \A k \in from..to : s[k] \in DecimalDigits

\* optional sign, digits, optionally a decimal point followed by digits
IsNumericText(s) ==
    \E sg \in 0..1 : \E e \in 1..Len(s) :
        /\ sg = 1 => s[1] \in {"+", "-"}
        /\ DigitRun(s, sg + 1, e)
        /\ \/ e = Len(s)
           \/ e + 1 < Len(s) /\ s[e + 1] = "." /\ DigitRun(s, e + 2, Len(s))

\* the value is rendered by the last rule of to_sql_literal
IsStringCase(value) ==
    /\ value # None
    /\ LET v == strip(value)
       IN  v # <<>> /\ upper(v) # S_NULL /\ ~ISO_DT_RE(v) /\ ~NUMERIC_RE(v)

IsQuoted(l) == Len(l) >= 3 /\ l[1] = "N" /\ l[2] = "'" /\ l[Len(l)] = "'"

QuotedBody(l) == SubSeq(l, 3, Len(l) - 1)

QuoteCount(s) == Cardinality({k \in 1..Len(s) : s[k] = "'"})

\* every quote of b is one of a pair of adjacent quotes
RECURSIVE QuotesDoubled(_)
QuotesDoubled(b) ==
    IF b = <<>> THEN TRUE
    ELSE IF b[1] = "'" THEN Len(b) >= 2 /\ b[2] = "'" /\ QuotesDoubled(SubSeq(b, 3, Len(b)))
    ELSE QuotesDoubled(Tail(b))

\* each doubled quote replaced by one quote
RECURSIVE Unescape(_)
Unescape(b) ==
    IF b = <<>> THEN <<>>
    ELSE IF Len(b) >= 2 /\ b[1] = "'" /\ b[2] = "'" THEN <<"'">> \o Unescape(SubSeq(b, 3, Len(b)))
    ELSE <<b[1]>> \o Unescape(Tail(b))

IsConvert(l) ==
    /\ Len(l) >= Len(S_CONVERT) + Len(S_126)
    /\ SubSeq(l, 1, Len(S_CONVERT)) = S_CONVERT
    /\ SubSeq(l, Len(l) - Len(S_126) + 1, Len(l)) = S_126

ConvertedText(l) == SubSeq(l, Len(S_CONVERT) + 1, Len(l) - Len(S_126))

Field(v, k) == ToInt(SubSeq(v, k, k + 1))

\* the date and clock fields of a text of the ISO shape are those of a real day
\* and time of day
FieldsReal(v) ==
    /\ ToInt(SubSeq(v, 1, 4)) >= 1
    /\ Field(v, 6) \in 1..12
    /\ Field(v, 9) \in 1..DaysInMonth(ToInt(SubSeq(v, 1, 4)), Field(v, 6))
    /\ Len(v) > 10 => Field(v, 12) <= 23 /\ Field(v, 15) <= 59 /\ Field(v, 18) <= 59

HasZone(v) == Len(v) > 10 /\ (v[Len(v)] = "Z" \/ OffsetAt(v, FracEnd(v)))

\* the signed offset, in minutes, of a text of the ISO shape (0 for Z and for none)
ZoneMinutes(v) ==
    LET fe == FracEnd(v)
    IN  IF OffsetAt(v, fe)
        THEN (IF v[fe] = "-" THEN 0 - 1 ELSE 1) * (Field(v, fe + 1) * 60 + Field(v, fe + 4))
        ELSE 0

ZoneReal(v) ==
    LET fe == FracEnd(v)
    IN  OffsetAt(v, fe) => Field(v, fe + 1) <= 23 /\ Field(v, fe + 4) <= 59

\* the fraction digits of a text of the ISO shape
FractionOf(v) == IF CharAt(v, 20, ".") THEN SubSeq(v, 21, FracEnd(v) - 1) ELSE <<>>

PadZeros(f, n) == [k \in 1..n |-> IF k <= Len(f) THEN f[k] ELSE "0"]

RECURSIVE DaysBeforeMonth(_, _)
DaysBeforeMonth(y, m) == IF m <= 1 THEN 0 ELSE DaysBeforeMonth(y, m - 1) + DaysInMonth(y, m - 1)

\* the day's number in the proleptic Gregorian calendar
Ordinal(y, m, d) ==
    365 * (y - 1) + (y - 1) \div 4 - (y - 1) \div 100 + (y - 1) \div 400
    + DaysBeforeMonth(y, m) + d

\* the instant a date-time text of the ISO shape denotes, as
\* <<UTC day number, UTC minute of the day, second, nanoseconds>>
InstantOf(v) ==
    LET total == Field(v, 12) * 60 + Field(v, 15) - ZoneMinutes(v)
        shift == IF total < 0 THEN 0 - 1 ELSE IF total >= 24 * 60 THEN 1 ELSE 0
    IN  <<Ordinal(ToInt(SubSeq(v, 1, 4)), Field(v, 6), Field(v, 9)) + shift,
          total - shift * 24 * 60,
          Field(v, 18),
          ToInt(PadZeros(FractionOf(v), 9))>>

\* the text denotes a real instant: a real day and time of day, a real offset, and
\* a UTC day within the years 1..9999 that datetime and datetime2 both cover
RealInstant(v) ==
    /\ FieldsReal(v)
    /\ ZoneReal(v)
    /\ Len(v) > 10 => InstantOf(v)[1] \in Ordinal(1, 1, 1)..Ordinal(9999, 12, 31)

\* a date-time text with no offset suffix
IsUtcWallClock(t) == DatePrefix(t) /\ TimePrefix(t) /\ FracEnd(t) = Len(t) + 1 /\ FieldsReal(t)

(***************************************************************************)
(* Properties of to_sql_literal, under SpecLiteral.                        *)
(***************************************************************************)

\* C1: a text of the ISO shape that carries a timezone suffix and denotes a real
\* instant is rendered as CONVERT(datetime2(7), '<t>', 126) where <t> has no offset
\* suffix and, read as UTC, denotes the same instant as the input.
C1_UtcSameInstant ==
    (pc = "returned" /\ val # None /\ ISO_DT_RE(strip(val)) /\ HasZone(strip(val))
        /\ RealInstant(strip(val)))
    => /\ IsConvert(lit)
       /\ IsUtcWallClock(ConvertedText(lit))
       /\ InstantOf(ConvertedText(lit)) = InstantOf(strip(val))

\* C2, as stated: a value rendered by the string rule comes out as N'<body>' with
\* every quote doubled, and un-escaping <body> gives back the input text itself.
C2_RoundTripInput ==
    (pc = "returned" /\ IsStringCase(val))
    => /\ IsQuoted(lit)
       /\ QuotesDoubled(QuotedBody(lit))
       /\ QuoteCount(QuotedBody(lit)) = 2 * QuoteCount(val)
       /\ Unescape(QuotedBody(lit)) = val

\* C2, amended: a value rendered by the string rule comes out as N'<body>' with
\* every quote doubled, and un-escaping <body> gives back the input text with its
\* leading and trailing whitespace removed.
C2_RoundTripTrimmed ==
    (pc = "returned" /\ IsStringCase(val))
    => /\ IsQuoted(lit)
       /\ QuotesDoubled(QuotedBody(lit))
       /\ QuoteCount(QuotedBody(lit)) = 2 * QuoteCount(val)
       /\ Unescape(QuotedBody(lit)) = strip(val)

C2_Witness ==
    /\ pc = "returned"
    /\ val = <<" ", "'", "a">>
    /\ lit = <<"N", "'", "'", "'", "a", "'">>

\* C3: a text of the numeric shape (optional sign, digits, optional decimal point
\* followed by digits) is returned unchanged: not NULL, not converted, not quoted.
C3_NumericPassThrough ==
    (pc = "returned" /\ val # None /\ IsNumericText(val)) => lit = val

C3_Witness ==
    /\ pc = "returned"
    /\ val = <<"+", "1", ".", "1">>
    /\ lit = val

\* C7: a text of the ISO shape whose fields are not those of a real day and time
\* is rendered as CONVERT(datetime2(7), '<v>', 126) with <v> the trimmed input
\* text, nothing appended, replaced or removed.
C7_FallbackVerbatim ==
    (pc = "returned" /\ val # None /\ ISO_DT_RE(strip(val)) /\ ~FieldsReal(strip(val)))
    => lit = S_CONVERT \o strip(val) \o S_126

\* C8, on the texts of the ISO shape that denote a real instant (those the
\* fallback of C7 does not touch): the text inside the CONVERT expression ends in
\* a fraction of exactly 7 digits, the input's fraction right-padded with zeros or
\* truncated to 7 digits.
C8_FractionSevenDigits ==
    (pc = "returned" /\ val # None /\ ISO_DT_RE(strip(val)) /\ RealInstant(strip(val)))
    => /\ IsConvert(lit)
       /\ LET t == ConvertedText(lit)
          IN  /\ Len(t) >= 8
              /\ t[Len(t) - 7] = "."
              /\ SubSeq(t, Len(t) - 6, Len(t)) = PadZeros(FractionOf(strip(val)), 7)

(***************************************************************************)
(* Properties of build_columns, write_chunk_sql and main, under Spec.      *)
(***************************************************************************)
RECURSIVE ConcatRows(_)
ConcatRows(fs) == IF fs = <<>> THEN <<>> ELSE Head(fs).rows \o ConcatRows(Tail(fs))

Occurrences(s, x) == Cardinality({k \in 1..Len(s) : s[k] = x})

KeyGenerated == Truthy(id_column) /\ generate_uuid

\* the places <<file, line>> of the INSERT statements written so far
InsertPlaces ==
    UNION {{<<f, p>> : p \in {q \in 1..Len(files[f].lines) :
                                  files[f].lines[q].kind = "INSERT INTO"}} :
           f \in 1..Len(files)}

\* the key column's values written so far, each with its place <<file, line, column>>
KeyValues ==
    UNION {{<<x[1], x[2], j, files[x[1]].lines[x[2]].vals[j]>> :
              j \in {c \in 1..Len(files[x[1]].lines[x[2]].columns) :
                        files[x[1]].lines[x[2]].columns[c] = id_column}} :
           x \in InsertPlaces}

\* the identifiers uuid4 has handed out so far
Generated == {UuidText(k) : k \in 1..uuid_count}

\* C4: a finished run has written exactly ceil(N / chunk_size) chunks, numbered
\* 1, 2, ... in order; none is empty, all but the last hold chunk_size rows, and
\* the chunks concatenated in order are the row sequence.
C4_Chunking ==
    pc = "done" =>
        LET n == Len(all_rows)
            k == Len(files)
        IN  /\ k * chunk_size >= n
            /\ k > 0 => (k - 1) * chunk_size < n
            /\ \A j \in 1..k :
                /\ files[j].idx = j
                /\ Len(files[j].rows) >= 1
                /\ j < k => Len(files[j].rows) = chunk_size
            /\ ConcatRows(files) = all_rows

C4_Witness ==
    /\ pc = "done"
    /\ Len(all_rows) = 3
    /\ all_rows[1] # all_rows[2]
    /\ chunk_size = 2
    /\ Len(files) = 2
    /\ Len(files[2].rows) = 1

\* C5: with a key column named and generation enabled, the Column Set starts with
\* the key column and holds it exactly once, wherever (and however often) the
\* header or the exclusion list names it; every artifact of the run uses that list.
C5_KeyFirstOnce ==
    (pc # "start" /\ KeyGenerated) =>
        /\ Len(cols) >= 1
        /\ cols[1] = id_column
        /\ Occurrences(cols, id_column) = 1
        /\ \A f \in 1..Len(files) : \A p \in 1..Len(files[f].lines) :
              files[f].lines[p].kind \in {"-- Columns:", "INSERT INTO"}
                  => files[f].lines[p].columns = cols

C5_Witness ==
    /\ pc = "done"
    /\ KeyGenerated
    /\ csv_cols = <<"Name", "Id">>
    /\ id_column \notin exclude_columns
    /\ cols = <<"Id", "Name">>
    /\ Len(files) = 2

\* C6: with a key column named and generation enabled, the key column's value in
\* every INSERT is an identifier uuid4 generated, no two INSERTs of the run carry
\* the same one, and every other column's value is to_sql_literal of the row's
\* value for that column ("" when the row lacks the column).
C6_KeyValuesFresh ==
    KeyGenerated =>
        /\ \A x \in InsertPlaces :
            LET ins == files[x[1]].lines[x[2]]
                row == all_rows[(x[1] - 1) * chunk_size + (x[2] - 5)]
            IN  \A j \in 1..Len(ins.columns) :
                    IF ins.columns[j] = id_column
                    THEN ins.vals[j] \in Generated
                    ELSE ins.vals[j] = to_sql_literal(IF ins.columns[j] \in DOMAIN row
                                                      THEN row[ins.columns[j]] ELSE <<>>)
        /\ \A x, y \in KeyValues : x # y => x[4] # y[4]

C6_Witness ==
    /\ pc = "done"
    /\ KeyGenerated
    /\ cols = <<"Id", "Name">>
    /\ Len(all_rows) = 3
    /\ "Id" \in DOMAIN all_rows[1]
    /\ "Id" \notin DOMAIN all_rows[2]
    /\ chunk_size = 2
    /\ Len(files) = 2
    /\ uuid_count = 3

\* C9: the Column Set holds no column name more than once.
C9_ColumnsUnique ==
    pc # "start" => \A a, b \in 1..Len(cols) : a # b => cols[a] # cols[b]

\* C10: every artifact is, in this order, the four header lines, BEGIN TRAN, one
\* INSERT per row of the chunk in the chunk's row order, COMMIT TRAN and GO; the
\* header's row count is the number of INSERTs, and every INSERT lists as many
\* values as columns, in Column Set order.
C10_ArtifactShape ==
    \A f \in 1..Len(files) :
        LET L == files[f].lines
            n == Len(files[f].rows)
            inserts == {p \in 1..Len(L) : L[p].kind = "INSERT INTO"}
        IN  /\ Len(L) = n + 7
            /\ L[1].kind = "-- Generated from chunk" /\ L[1].n = files[f].idx
            /\ L[2].kind = "-- Table:"
            /\ L[3].kind = "-- Columns:" /\ L[3].columns = cols
            /\ L[4].kind = "-- Rows in this file:" /\ L[4].n = Cardinality(inserts)
            /\ L[5].kind = "BEGIN TRAN;"
            /\ inserts = 6..(n + 5)
            /\ L[n + 6].kind = "COMMIT TRAN;"
            /\ L[n + 7].kind = "GO"
            /\ \A p \in inserts :
                /\ L[p].columns = cols
                /\ Len(L[p].vals) = Len(cols)
                /\ \A j \in 1..Len(cols) :
                      ~IsKey(cols[j], id_column, generate_uuid)
                          => L[p].vals[j] = to_sql_literal(Get(files[f].rows[p - 5], cols[j]))

C10_Witness ==
    /\ pc = "done"
    /\ Len(files) = 2
    /\ Len(files[1].lines) = 9
    /\ Len(files[2].lines) = 8
    /\ files[1].rows[1] # files[1].rows[2]
    /\ Len(cols) = 2

====
